---------------------------- MODULE Spec2Model ----------------------------
(***************************************************************************)
(* Monthly electric load model generator (streamlit_app.py).               *)
(*                                                                         *)
(* The script is modelled as the state machine Streamlit runs: the widget  *)
(* values are the inputs, one run of the script builds the hourly range,   *)
(* creates the random generator, appends one row per hour, and the script  *)
(* is run again from the top with the same widget values.                  *)
(*                                                                         *)
(* Units.  Loads (base_load, peak_load, Load_kW) are integers counting     *)
(* 0.0001 kW, so that round(load, 3) is a real rounding.  The exact value  *)
(* of the script variable `load` is a fraction <<num, den>> of that unit.  *)
(* random_pct counts 0.01 %.  A standard normal sample counts 0.1.         *)
(* A timestamp is the number of hours since 0001-01-01 00:00 (proleptic    *)
(* Gregorian ordinal 1), as datetime.toordinal() * 24 + hour - 24.         *)
(***************************************************************************)
EXTENDS Integers, Sequences, FiniteSets

VARIABLES
    year, month,                    \* st.number_input "Year", "Month (1-12)"
    operating_start, operating_end, \* st.time_input values [hour, minute, second]
    weekdays,                       \* st.multiselect "Operating days"
    base_load, peak_load,           \* st.number_input loads
    random_pct, seed,               \* st.slider, st.number_input "Random seed"
    start_date, end_date,           \* lines 51-55
    date_range,                     \* line 57
    rng,                            \* line 60: state of the generator
    rows,                           \* line 62
    load,                           \* lines 90, 93, 95, 100: the loop's `load`
    idx,                            \* position of `for ts in date_range`
    pc,                             \* "start", "loop", "done"
    runs,                           \* number of runs of the script started
    rng0,                           \* history: generator state right after line 60
    draws,                          \* history: the samples rng.normal returned
    prev_rows                       \* history: rows of the previous run

vars == <<year, month, operating_start, operating_end, weekdays, base_load,
          peak_load, random_pct, seed, start_date, end_date, date_range, rng,
          rows, load, idx, pc, runs, rng0, draws, prev_rows>>

inputs == <<year, month, operating_start, operating_end, weekdays, base_load,
            peak_load, random_pct, seed>>

\* How many times the script is run in one behaviour (Streamlit reruns it on
\* every interaction; the model stops after MaxRuns runs).
MaxRuns == 2

---------------------------------------------------------------------------
(* datetime: the calendar arithmetic behind datetime(...), timedelta and   *)
(* the Timestamp fields.                                                   *)

DayNames == <<"Monday", "Tuesday", "Wednesday", "Thursday", "Friday",
              "Saturday", "Sunday">>

DAYS_IN_MONTH == <<31, 28, 31, 30, 31, 30, 31, 31, 30, 31, 30, 31>>

DAYS_BEFORE_MONTH == <<0, 31, 59, 90, 120, 151, 181, 212, 243, 273, 304, 334>>

is_leap(y) == y % 4 = 0 /\ (y % 100 # 0 \/ y % 400 = 0)

days_before_year(y) ==
    LET p == y - 1 IN p * 365 + (p \div 4) - (p \div 100) + (p \div 400)

days_before_month(y, m) ==
    DAYS_BEFORE_MONTH[m] + (IF m > 2 /\ is_leap(y) THEN 1 ELSE 0)

ymd2ord(y, m, d) == days_before_year(y) + days_before_month(y, m) + d

\* datetime(y, m, d, h, 0) as hours since ordinal 1, 00:00
datetime(y, m, d, h) == (ymd2ord(y, m, d) - 1) * 24 + h

ord2ymd(ord) ==
    LET n0   == ord - 1
        n400 == n0 \div 146097
        r400 == n0 % 146097
        n100 == r400 \div 36524
        r100 == r400 % 36524
        n4   == r100 \div 1461
        r4   == r100 % 1461
        n1   == r4 \div 365
        n    == r4 % 365
        y    == n400 * 400 + 1 + n100 * 100 + n4 * 4 + n1
    IN  IF n1 = 4 \/ n100 = 4
        THEN [year |-> y - 1, month |-> 12, day |-> 31]
        ELSE LET leapyear == n1 = 3 /\ (n4 # 24 \/ n100 = 3)
                 m0  == (n + 50) \div 32
                 p0  == DAYS_BEFORE_MONTH[m0]
                            + (IF m0 > 2 /\ leapyear THEN 1 ELSE 0)
                 m   == IF p0 > n THEN m0 - 1 ELSE m0
                 p   == IF p0 > n
                        THEN p0 - (DAYS_IN_MONTH[m]
                                    + (IF m = 2 /\ leapyear THEN 1 ELSE 0))
                        ELSE p0
             IN  [year |-> y, month |-> m, day |-> n - p + 1]

ts_ordinal(ts) == (ts \div 24) + 1
ts_date(ts)    == ord2ymd(ts_ordinal(ts))
ts_hour(ts)    == ts % 24
\* ts.strftime("%A"): ordinal 1 is a Monday
strftime_A(ts) == DayNames[((ts_ordinal(ts) + 6) % 7) + 1]
\* ts.time(): the range starts on the hour and steps by whole hours
ts_time(ts)    == [hour |-> ts_hour(ts), minute |-> 0, second |-> 0]

\* datetime.time ordering: by (hour, minute, second)
time_lt(a, b) ==
    \/ a.hour < b.hour
    \/ a.hour = b.hour /\ a.minute < b.minute
    \/ a.hour = b.hour /\ a.minute = b.minute /\ a.second < b.second

time_le(a, b) == time_lt(a, b) \/ a = b

---------------------------------------------------------------------------
(* Exact arithmetic on fractions <<num, den>>, den > 0, in lowest terms.   *)

RECURSIVE GCD(_, _)
GCD(a, b) == IF b = 0 THEN a ELSE GCD(b, a % b)

Abs(x) == IF x < 0 THEN -x ELSE x

Frac(n, d) ==
    LET g == GCD(Abs(n), d) IN IF g = 0 THEN <<0, 1>> ELSE <<n \div g, d \div g>>

FInt(n) == <<n, 1>>

FAdd(a, b) == Frac(a[1] * b[2] + b[1] * a[2], a[2] * b[2])

FSub(a, b) == Frac(a[1] * b[2] - b[1] * a[2], a[2] * b[2])

FMul(a, b) ==
    LET g1 == GCD(Abs(a[1]), b[2])
        g2 == GCD(Abs(b[1]), a[2])
        h1 == IF g1 = 0 THEN 1 ELSE g1
        h2 == IF g2 = 0 THEN 1 ELSE g2
    IN  Frac((a[1] \div h1) * (b[1] \div h2), (a[2] \div h2) * (b[2] \div h1))

FLe(a, b) == a[1] * b[2] <= b[1] * a[2]

FMax(a, b) == IF FLe(a, b) THEN b ELSE a

\* n / d to the nearest integer, ties to the even one (Python's round)
RoundHalfEven(n, d) ==
    LET q == n \div d
        r == n - q * d
    IN  IF 2 * r < d THEN q
        ELSE IF 2 * r > d THEN q + 1
        ELSE IF q % 2 = 0 THEN q ELSE q + 1

\* round(load, 3): to a whole number of 0.001 kW, given back in 0.0001 kW
Round3(x) == RoundHalfEven(x[1], x[2] * 10) * 10

---------------------------------------------------------------------------
(* Lines 50-57: the hourly range of the month.                             *)

StartDate(y, m) == datetime(y, m, 1, 0)

\* variant: the hour is not subtracted, the range runs into the next month
EndDateOffByOne(y, m) ==
    IF m = 12 THEN datetime(y + 1, 1, 1, 0) ELSE datetime(y, m + 1, 1, 0)

\* lines 52-55
EndDate(y, m) ==
    IF m = 12 THEN datetime(y + 1, 1, 1, 0) - 1 ELSE datetime(y, m + 1, 1, 0) - 1

\* pd.date_range(start, end, freq="H"): start, start + 1h, ... while <= end
pd_date_range(s, e) == [k \in 1..(IF e >= s THEN e - s + 1 ELSE 0) |-> s + k - 1]

---------------------------------------------------------------------------
(* Lines 60, 99: numpy's generator, abstracted to a full-period congruen-  *)
(* tial generator over 0..15 whose state selects the normal sample.       *)

\* the states an unseeded generator (seed widget 0 -> None) may start in
Entropy == {2, 9, 12}

SeedState(s) == (s * 7 + 1) % 16

\* variant: the seed is ignored
DefaultRngUnseeded(s) == Entropy

\* np.random.default_rng(None if seed == 0 else int(seed)): possible states
DefaultRng(s) == IF s = 0 THEN Entropy ELSE {SeedState(s)}

RngNext(g) == (g * 5 + 3) % 16

\* standard normal samples, in tenths, by generator state
NormalTable == <<-50, 4, -3, 12, 0, -9, 50, -17, 7, -40, 1, 23, -12, 9, -1, 31>>

StandardNormal(g) == NormalTable[g + 1]

---------------------------------------------------------------------------
(* Lines 64-100: one hour of the loop.                                     *)

\* variant: an after-midnight hour judged by the weekday on which the
\* overnight window opened
IsOperatingDayOfOpening(ts) ==
    IF time_lt(operating_end, operating_start)
       /\ time_lt(ts_time(ts), operating_end)
    THEN strftime_A(ts - 24) \in weekdays
    ELSE strftime_A(ts) \in weekdays

\* lines 64-65
IsOperatingDay(ts) == strftime_A(ts) \in weekdays

\* variant: the closing time counts as inside a day window
InHoursEndInclusive(t) ==
    IF time_le(operating_start, operating_end)
    THEN time_le(operating_start, t) /\ time_le(t, operating_end)
    ELSE time_le(operating_start, t) \/ time_lt(t, operating_end)

\* lines 69-74
InHours(t) ==
    IF time_le(operating_start, operating_end)
    THEN time_le(operating_start, t) /\ time_lt(t, operating_end)
    ELSE time_le(operating_start, t) \/ time_lt(t, operating_end)

Seconds(t) == t.hour * 3600 + t.minute * 60 + t.second

\* lines 78-93 with a chosen current_seconds
Profile(start_seconds, end_seconds, current_seconds) ==
    LET midpoint == Frac(start_seconds + end_seconds, 2)
        cur      == FInt(current_seconds)
        span     == FInt(peak_load - base_load)
    IN  IF FLe(cur, midpoint)
        THEN LET den  == FMax(FSub(midpoint, FInt(start_seconds)), FInt(1))
                 frac == FMul(FSub(cur, FInt(start_seconds)), <<den[2], den[1]>>)
             IN  FAdd(FInt(base_load), FMul(span, frac))
        ELSE LET den  == FMax(FSub(FInt(end_seconds), midpoint), FInt(1))
                 frac == FMul(FSub(cur, midpoint), <<den[2], den[1]>>)
             IN  FSub(FInt(peak_load), FMul(span, frac))

\* variant: an after-midnight current_seconds is not moved a day on
TriangularLoadNoShift(ts) ==
    LET start_seconds == Seconds(operating_start)
        end0          == Seconds(operating_end)
        end_seconds   == IF end0 <= start_seconds THEN end0 + 24 * 3600 ELSE end0
    IN  Profile(start_seconds, end_seconds, Seconds(ts_time(ts)))

\* lines 78-93
TriangularLoad(ts) ==
    LET start_seconds   == Seconds(operating_start)
        end0            == Seconds(operating_end)
        end_seconds     == IF end0 <= start_seconds THEN end0 + 24 * 3600 ELSE end0
        cur0            == Seconds(ts_time(ts))
        current_seconds == IF cur0 < start_seconds THEN cur0 + 24 * 3600 ELSE cur0
    IN  Profile(start_seconds, end_seconds, current_seconds)

\* variant: the flat load is peak_load
BaselineLoadPeak == FInt(peak_load)

\* line 95
BaselineLoad == FInt(base_load)

\* lines 76-95: the load before noise
CleanLoad(ts) ==
    IF IsOperatingDay(ts) /\ InHours(ts_time(ts))
    THEN TriangularLoad(ts)
    ELSE BaselineLoad

\* variant: a draw is made whatever random_pct is
ShouldDrawAlways(pct) == TRUE

\* line 98
ShouldDraw(pct) == pct > 0

\* rng.normal(loc=0.0, scale=random_pct/100.0) for the standard sample z
NormalSample(z, pct) == Frac(z * pct, 100000)

\* variant: no clamp at 0
ApplyNoiseUnclamped(l, z, pct) == FAdd(l, FMul(NormalSample(z, pct), l))

\* lines 99-100
ApplyNoise(l, z, pct) == FMax(FAdd(l, FMul(NormalSample(z, pct), l)), FInt(0))

\* lines 102-111
Row(ts, l) ==
    [Datetime  |-> ts,
     Year      |-> ts_date(ts).year,
     Month     |-> ts_date(ts).month,
     Day       |-> ts_date(ts).day,
     Hour      |-> ts_hour(ts),
     Weekday   |-> strftime_A(ts),
     Operating |-> IsOperatingDay(ts) /\ InHours(ts_time(ts)),
     Load_kW   |-> Round3(l)]

---------------------------------------------------------------------------
(* The script.                                                             *)

\* lines 50-62: the range, the generator, the empty list
BuildRange ==
    /\ pc = "start"
    /\ start_date' = StartDate(year, month)
    /\ end_date' = EndDate(year, month)
    /\ date_range' = pd_date_range(start_date', end_date')
    /\ rng' \in DefaultRng(seed)
    /\ rng0' = rng'
    /\ rows' = <<>>
    /\ draws' = <<>>
    /\ idx' = 1
    /\ pc' = "loop"
    /\ UNCHANGED <<inputs, load, runs, prev_rows>>

\* lines 63-111: one iteration of `for ts in date_range`
LoopBody ==
    /\ pc = "loop"
    /\ idx <= Len(date_range)
    /\ LET ts    == date_range[idx]
           clean == CleanLoad(ts)
       IN  /\ IF ShouldDraw(random_pct)
              THEN /\ load' = ApplyNoise(clean, StandardNormal(rng), random_pct)
                   /\ draws' = Append(draws, StandardNormal(rng))
                   /\ rng' = RngNext(rng)
              ELSE /\ load' = clean
                   /\ UNCHANGED <<draws, rng>>
           /\ rows' = Append(rows, Row(ts, load'))
    /\ idx' = idx + 1
    /\ UNCHANGED <<inputs, start_date, end_date, date_range, pc, runs, rng0,
                   prev_rows>>

\* line 113: the loop is exhausted and the rows become the data frame
Finish ==
    /\ pc = "loop"
    /\ idx > Len(date_range)
    /\ pc' = "done"
    /\ UNCHANGED <<inputs, start_date, end_date, date_range, rng, rows, load,
                   idx, runs, rng0, draws, prev_rows>>

\* Streamlit runs the script again from the top in a fresh namespace; the
\* widgets keep their values
Rerun ==
    /\ pc = "done"
    /\ runs < MaxRuns
    /\ runs' = runs + 1
    /\ prev_rows' = rows
    /\ start_date' = 0
    /\ end_date' = 0
    /\ date_range' = <<>>
    /\ rng' = 0
    /\ rng0' = 0
    /\ rows' = <<>>
    /\ draws' = <<>>
    /\ load' = <<0, 1>>
    /\ idx' = 0
    /\ pc' = "start"
    /\ UNCHANGED inputs

Next == BuildRange \/ LoopBody \/ Finish \/ Rerun

---------------------------------------------------------------------------
(* Initial states: the widget values of lines 28-45 and a script that has  *)
(* not run yet.                                                            *)

T(h, m) == [hour |-> h, minute |-> m, second |-> 0]

WorkDays == {"Monday", "Tuesday", "Wednesday", "Thursday", "Friday"}

\* what the widgets of lines 28-45 let through: year 2000-2100, month 1-12,
\* days among the seven names, loads >= 0, random_pct 0-30 %, seed >= 0
WidgetAccepts(c) ==
    /\ c.year \in 2000..2100
    /\ c.month \in 1..12
    /\ c.weekdays \subseteq {DayNames[i] : i \in 1..7}
    /\ c.base_load >= 0
    /\ c.peak_load >= 0
    /\ c.random_pct \in 0..3000
    /\ c.seed >= 0

InitWith(c) ==
    /\ WidgetAccepts(c)
    /\ year = c.year
    /\ month = c.month
    /\ operating_start = c.operating_start
    /\ operating_end = c.operating_end
    /\ weekdays = c.weekdays
    /\ base_load = c.base_load
    /\ peak_load = c.peak_load
    /\ random_pct = c.random_pct
    /\ seed = c.seed
    /\ start_date = 0
    /\ end_date = 0
    /\ date_range = <<>>
    /\ rng = 0
    /\ rng0 = 0
    /\ rows = <<>>
    /\ draws = <<>>
    /\ load = <<0, 1>>
    /\ idx = 0
    /\ pc = "start"
    /\ runs = 1
    /\ prev_rows = <<>>

\* the widgets' defaults (lines 32-45) for a given month, noise off, seeded
Defaults(y, m) ==
    [year |-> y, month |-> m,
     operating_start |-> T(8, 0), operating_end |-> T(18, 0),
     weekdays |-> WorkDays,
     base_load |-> 500000, peak_load |-> 1500000,
     random_pct |-> 0, seed |-> 1]

CalendarInputs ==
    { Defaults(y, m) : y \in {2000, 2023, 2024, 2100}, m \in {1, 2, 4, 12} }

Init == \E c \in CalendarInputs : InitWith(c)

Spec == Init /\ [][Next]_vars

\* schedules: day windows, overnight windows, start = end, off-the-hour
\* bounds, a window closing at 23:59; several operating-day sets
Windows ==
    { <<T(8, 0), T(18, 0)>>, <<T(22, 0), T(6, 0)>>, <<T(8, 0), T(8, 0)>>,
      <<T(8, 30), T(17, 15)>>, <<T(0, 0), T(23, 59)>>, <<T(18, 30), T(2, 0)>> }

DaySets == { WorkDays, {"Saturday", "Sunday"}, {"Monday", "Wednesday"}, {} }

ScheduleInputs ==
    { [Defaults(2024, 2) EXCEPT !.operating_start = w[1], !.operating_end = w[2],
                                !.weekdays = d,
                                !.base_load = 100000, !.peak_load = 200000] :
        w \in Windows, d \in DaySets }

InitSchedule == \E c \in ScheduleInputs : InitWith(c)

SpecSchedule == InitSchedule /\ [][Next]_vars

\* load profiles with noise off: <<base_load, peak_load>> pairs, among them
\* peak below base, a zero base and a base with a fourth decimal
LoadPairs ==
    { <<500000, 1500000>>, <<100000, 200000>>, <<200000, 100000>>,
      <<0, 100000>>, <<100004, 200000>>, <<123456, 123456>> }

ProfileWindows ==
    { <<T(8, 0), T(18, 0)>>, <<T(9, 0), T(17, 0)>>, <<T(8, 0), T(15, 0)>>,
      <<T(22, 0), T(6, 0)>>, <<T(8, 30), T(17, 15)>>, <<T(8, 0), T(8, 0)>> }

ProfileInputs ==
    { [Defaults(2024, 2) EXCEPT !.operating_start = w[1], !.operating_end = w[2],
                                !.base_load = l[1], !.peak_load = l[2]] :
        w \in ProfileWindows, l \in LoadPairs }

InitProfile == \E c \in ProfileInputs : InitWith(c)

SpecProfile == InitProfile /\ [][Next]_vars

\* noise: seeded runs of a day window, an overnight window and a peak below
\* base, and the unseeded generator on the first
NoiseInputs ==
    { [Defaults(2023, 2) EXCEPT !.operating_start = c[1], !.operating_end = c[2],
                                !.base_load = c[3], !.peak_load = c[4],
                                !.random_pct = p, !.seed = s] :
        c \in { <<T(9, 0), T(17, 0), 100000, 200000>>,
                <<T(22, 0), T(6, 0), 100000, 200000>>,
                <<T(9, 0), T(17, 0), 200000, 100000>> },
        p \in {0, 500, 3000},
        s \in {1, 2} }
    \cup
    { [Defaults(2023, 2) EXCEPT !.operating_start = T(9, 0),
                                !.operating_end = T(17, 0),
                                !.base_load = 100000, !.peak_load = 200000,
                                !.random_pct = p, !.seed = 0] :
        p \in {0, 3000} }

InitNoise == \E c \in NoiseInputs : InitWith(c)

SpecNoise == InitNoise /\ [][Next]_vars

---------------------------------------------------------------------------
(* The calendar and clock as the specification states them, for the        *)
(* properties below.                                                       *)

GregorianLeap(y) == (y % 4 = 0 /\ y % 100 # 0) \/ y % 400 = 0

DaysInMonth(y, m) ==
    IF m = 2 THEN (IF GregorianLeap(y) THEN 29 ELSE 28)
    ELSE IF m \in {4, 6, 9, 11} THEN 30 ELSE 31

\* weekday name of a calendar date, by Sakamoto's method
GregorianWeekday(y, m, d) ==
    LET t  == <<0, 3, 2, 5, 0, 3, 5, 1, 4, 6, 2, 4>>
        yy == IF m < 3 THEN y - 1 ELSE y
        w  == (yy + (yy \div 4) - (yy \div 100) + (yy \div 400) + t[m] + d) % 7
    IN  <<"Sunday", "Monday", "Tuesday", "Wednesday", "Thursday", "Friday",
          "Saturday">>[w + 1]

RowWeekday(r) == GregorianWeekday(r.Year, r.Month, r.Day)

ClockSeconds(t) == 3600 * t.hour + 60 * t.minute + t.second

StartSec == ClockSeconds(operating_start)
EndSec   == ClockSeconds(operating_end)
RowSec(r) == 3600 * r.Hour

LastRow == rows[Len(rows)]

Rows == 1..Len(rows)

\* the generator state reached from g by n draws
RECURSIVE RngAfter(_, _)
RngAfter(g, n) == IF n = 0 THEN g ELSE RngAfter(RngNext(g), n - 1)

---------------------------------------------------------------------------
(* Properties.                                                             *)

\* C1: a finished run holds exactly daysInMonth(year, month) * 24 records;
\* the first is day 1 hour 0 of the month, the last is the month's last day
\* hour 23, and each record is one hour after the one before it (the same
\* day and the next hour, or the next day's hour 0 after hour 23).
C1_Coverage ==
    pc = "done" =>
        /\ Len(rows) = DaysInMonth(year, month) * 24
        /\ rows[1].Year = year /\ rows[1].Month = month
        /\ rows[1].Day = 1 /\ rows[1].Hour = 0
        /\ LastRow.Year = year /\ LastRow.Month = month
        /\ LastRow.Day = DaysInMonth(year, month) /\ LastRow.Hour = 23
        /\ \A i \in 2..Len(rows) :
              /\ rows[i].Datetime = rows[i - 1].Datetime + 1
              /\ rows[i].Year = year /\ rows[i].Month = month
              /\ \/ rows[i].Day = rows[i - 1].Day
                    /\ rows[i].Hour = rows[i - 1].Hour + 1
                 \/ rows[i].Day = rows[i - 1].Day + 1
                    /\ rows[i].Hour = 0 /\ rows[i - 1].Hour = 23

\* a finished leap-year February
C1_Witness ==
    pc = "done" /\ month = 2 /\ GregorianLeap(year) /\ Len(rows) = 29 * 24

\* C2: with operating_start <= operating_end, a record is Operating exactly
\* when the weekday of its date is an operating day and
\* operating_start <= its time of day < operating_end.
C2_NonWrappingFlag ==
    (pc = "done" /\ StartSec <= EndSec) =>
        \A i \in Rows :
            rows[i].Operating <=>
                /\ RowWeekday(rows[i]) \in weekdays
                /\ StartSec <= RowSec(rows[i])
                /\ RowSec(rows[i]) < EndSec

\* a day window whose opening hour is operating, whose closing hour is not,
\* and an in-window hour of a non-operating weekday that is not
C2_Witness ==
    /\ pc = "done" /\ StartSec < EndSec
    /\ \E i \in Rows : rows[i].Operating /\ RowSec(rows[i]) = StartSec
    /\ \E i \in Rows : /\ ~rows[i].Operating
                       /\ RowSec(rows[i]) = EndSec
                       /\ RowWeekday(rows[i]) \in weekdays
    /\ \E i \in Rows : /\ ~rows[i].Operating
                       /\ RowWeekday(rows[i]) \notin weekdays
                       /\ StartSec <= RowSec(rows[i])
                       /\ RowSec(rows[i]) < EndSec

\* C3: with operating_start > operating_end, a record is Operating exactly
\* when the weekday of its own date is an operating day and its time of day
\* is >= operating_start or < operating_end.
C3_OvernightFlag ==
    (pc = "done" /\ StartSec > EndSec) =>
        \A i \in Rows :
            rows[i].Operating <=>
                /\ RowWeekday(rows[i]) \in weekdays
                /\ \/ RowSec(rows[i]) >= StartSec
                   \/ RowSec(rows[i]) < EndSec

\* after-midnight hours: one operating although the window opened on a
\* non-operating weekday, one not operating although it opened on an
\* operating weekday
C3_Witness ==
    /\ pc = "done" /\ StartSec > EndSec
    /\ \E i \in Rows : /\ i > 24
                       /\ RowSec(rows[i]) < EndSec
                       /\ rows[i].Operating
                       /\ RowWeekday(rows[i - 24]) \notin weekdays
    /\ \E i \in Rows : /\ i > 24
                       /\ RowSec(rows[i]) < EndSec
                       /\ ~rows[i].Operating
                       /\ RowWeekday(rows[i - 24]) \in weekdays

\* the triangular profile as the specification writes it, for the hour of
\* record r: twice the seconds are used so that the midpoint is whole
SpecProfileLoad(r) ==
    LET e     == IF EndSec <= StartSec THEN EndSec + 86400 ELSE EndSec
        c     == IF RowSec(r) < StartSec THEN RowSec(r) + 86400 ELSE RowSec(r)
        mid2  == StartSec + e
        up    == Frac(2 * (c - StartSec),
                      IF mid2 - 2 * StartSec > 2 THEN mid2 - 2 * StartSec ELSE 2)
        down  == Frac(2 * c - mid2,
                      IF 2 * e - mid2 > 2 THEN 2 * e - mid2 ELSE 2)
    IN  IF 2 * c <= mid2
        THEN FAdd(FInt(base_load), FMul(FInt(peak_load - base_load), up))
        ELSE FSub(FInt(peak_load), FMul(FInt(peak_load - base_load), down))

\* C4: with random_pct = 0, after every operating hour the loop's load is the
\* triangular profile's value for that hour: base_load where the window
\* opens, peak_load on the midpoint, the rising formula up to the midpoint
\* and the falling one after it (50/150 kW, 08:00-18:00: 70 kW at 17:00);
\* the record holds that value to three decimals.
C4_Triangular ==
    (random_pct = 0 /\ rows # <<>> /\ LastRow.Operating) =>
        LET e == IF EndSec <= StartSec THEN EndSec + 86400 ELSE EndSec
            c == IF RowSec(LastRow) < StartSec
                 THEN RowSec(LastRow) + 86400 ELSE RowSec(LastRow)
        IN  /\ load = SpecProfileLoad(LastRow)
            /\ c = StartSec => load = <<base_load, 1>>
            /\ 2 * c = StartSec + e => load = <<peak_load, 1>>
            /\ (/\ base_load = 500000 /\ peak_load = 1500000
                /\ operating_start = T(8, 0) /\ operating_end = T(18, 0)
                /\ LastRow.Hour = 17) => LastRow.Load_kW = 700000
            /\ 2 * Abs(LastRow.Load_kW * load[2] - load[1]) <= 10 * load[2]

\* an overnight window, just after an operating hour past midnight whose
\* load lies strictly between a differing base and peak
C4_Witness ==
    /\ random_pct = 0 /\ rows # <<>> /\ LastRow.Operating
    /\ StartSec > EndSec /\ RowSec(LastRow) < EndSec
    /\ base_load < peak_load
    /\ FLe(<<base_load + 1, 1>>, load) /\ FLe(load, <<peak_load - 1, 1>>)

\* C5 as stated: with random_pct = 0 every record that is not Operating has
\* Load_kW exactly base_load.
C5_BaselineExact ==
    (pc = "done" /\ random_pct = 0) =>
        \A i \in Rows : ~rows[i].Operating => rows[i].Load_kW = base_load

\* C5 as amended: with random_pct = 0 every record that is not Operating has
\* Load_kW equal to base_load rounded to three decimals (a whole number of
\* 0.001 kW, at most 0.0005 kW from base_load), which is base_load itself
\* when base_load has at most three decimals.
C5_BaselineRounded ==
    (pc = "done" /\ random_pct = 0) =>
        \A i \in Rows :
            ~rows[i].Operating =>
                /\ rows[i].Load_kW % 10 = 0
                /\ Abs(rows[i].Load_kW - base_load) <= 5
                /\ base_load % 10 = 0 => rows[i].Load_kW = base_load

\* a finished Mon-Fri run with Saturday records, for a base load with a
\* fourth decimal
C5_Witness ==
    /\ pc = "done" /\ random_pct = 0 /\ base_load % 10 # 0
    /\ \E i \in Rows : ~rows[i].Operating /\ rows[i].Weekday = "Saturday"
    /\ \E i \in Rows : rows[i].Operating

\* C6: every record of a finished run has Load_kW >= 0.
C6_NonNegative ==
    pc = "done" => \A i \in Rows : rows[i].Load_kW >= 0

\* a finished noisy run with a positive base and peak in which a draw below
\* -100 % of the load was clamped to 0
C6_Witness ==
    /\ pc = "done" /\ random_pct > 0 /\ base_load > 0 /\ peak_load > 0
    /\ \E i \in Rows : draws[i] * random_pct < -100000 /\ rows[i].Load_kW = 0

\* C7: a run of the script with the same widget values and the same
\* non-zero seed as the run before it produces the same rows.
C7_Deterministic ==
    (pc = "done" /\ runs >= 2 /\ seed # 0) => rows = prev_rows

\* a second seeded run with noise that changed a non-operating record
C7_Witness ==
    /\ pc = "done" /\ runs >= 2 /\ seed # 0 /\ random_pct > 0
    /\ rows = prev_rows
    /\ \E i \in Rows : ~rows[i].Operating /\ rows[i].Load_kW # base_load

\* C9: with random_pct > 0, after k hours exactly k draws were made, the
\* generator is k steps from its initial state, and the k-th draw is the
\* k-th output of the generator and the one applied to the k-th hour,
\* operating or not; with random_pct = 0 no draw is made and the generator
\* stays in its initial state.
C9_DrawOrder ==
    /\ random_pct > 0 =>
        /\ Len(draws) = Len(rows)
        /\ rng = RngAfter(rng0, Len(rows) % 16)
        /\ rows # <<>> =>
            LET k == Len(rows)
            IN  /\ draws[k] = StandardNormal(RngAfter(rng0, (k - 1) % 16))
                /\ load = ApplyNoise(CleanLoad(rows[k].Datetime), draws[k],
                                     random_pct)
                /\ rows[k].Load_kW = Round3(load)
    /\ random_pct = 0 => draws = <<>> /\ rng = rng0

\* a finished noisy run with operating and non-operating hours, one draw each
C9_Witness ==
    /\ pc = "done" /\ random_pct > 0
    /\ Len(draws) = Len(date_range) /\ Len(rows) = Len(date_range)
    /\ \E i \in Rows : rows[i].Operating
    /\ \E i \in Rows : ~rows[i].Operating

\* C10: a schedule with operating_end <= operating_start wraps past
\* midnight, its end 86400 s later: a record is Operating exactly when its
\* weekday is an operating day and its time of day, or that time a day
\* later, lies in [start, end + 86400); so with operating_end =
\* operating_start every hour of an operating day is operating.
C10_EndNotAfterStartWraps ==
    (pc = "done" /\ EndSec <= StartSec) =>
        \A i \in Rows :
            rows[i].Operating <=>
                /\ RowWeekday(rows[i]) \in weekdays
                /\ \/ StartSec <= RowSec(rows[i])
                      /\ RowSec(rows[i]) < EndSec + 86400
                   \/ StartSec <= RowSec(rows[i]) + 86400
                      /\ RowSec(rows[i]) + 86400 < EndSec + 86400

=============================================================================
